---- MODULE Spec2Model ----
(***************************************************************************)
(* A model of demo/src/demos/TextureDemo.js: the asset loading of load(),  *)
(* the pipeline construction of initialize(), the settings menu of         *)
(* registerOptions(), and the parts of the post-processing library the     *)
(* demo drives (effects, fusion, the effect pass, the blend functions).    *)
(* The library's constructors, fusion engine and frame execution are      *)
(* modelled from the specification's contracts (sections 3 to 5).          *)
(***************************************************************************)
EXTENDS Integers, Sequences, FiniteSets, TLC

\* ------------------------------------------------------------------ bounds

\* The number of load() calls a behaviour makes.
MaxLoads == 2

\* The number of settings-menu events a behaviour makes.
MaxEvents == 2

\* Colour channels, contributions and opacities of the fold are k/Scale, k in 0..Scale.
Scale == 2

\* ----------------------------------------------------------------- state

VARIABLES
  assets,        \* this.assets: the keys the asset cache holds
  pending,       \* outstanding requests of the loading manager, per request
  onLoadTarget,  \* the promise whose resolve loadingManager.onLoad wraps (0: none)
  timers,        \* promises with a setTimeout(resolve, 250) outstanding
  promise,       \* the promises load() returned: "none", "pending", "resolved"
  logged,        \* the requests console.error reported as failed
  camera,        \* this.camera
  controls,      \* this.controls
  background,    \* scene.background
  children,      \* the objects added to the scene
  built,         \* the effects whose construction succeeded
  effect,        \* this.effect
  passes,        \* the composer's passes
  initState,     \* "none", "ok" (initialize returned), "failed" (it threw)
  error,         \* the error initialize() or a handler surfaced
  programId,     \* the number of fused programs compiled so far
  opacity,       \* blendMode.opacity.value, in percent
  blendFunction, \* blendMode.blendFunction
  tex,           \* effect.texture: rotation, offset, repeat, center
  params,        \* the menu's params object
  menu,          \* whether registerOptions() has built the menu
  events,        \* the number of menu events handled
  pc,            \* 0: no frame in flight; k: the frame is about to run stage k
  trace,         \* the stages the current (or last) frame has executed
  available,     \* the buffers written so far in the current frame
  readOk,        \* every stage so far found its input buffers written
  frameDone,     \* a frame has completed
  usedOpacity,   \* the opacity the last execute of the fused program read
  fz             \* the fusion engine applied to two effects in both orders

loadVars == <<assets, pending, onLoadTarget, timers, promise, logged>>
demoVars == <<camera, controls, background, children, built, effect, passes,
              initState, error, programId>>
uniformVars == <<opacity, blendFunction, tex>>
menuVars == <<params, menu, events>>
frameVars == <<pc, trace, available, readOk, frameDone, usedOpacity>>
vars == <<loadVars, demoVars, uniformVars, menuVars, frameVars, fz>>

\* ------------------------------------------------------- blend functions

\* The closed set of blend functions, numbered in the order the enumeration lists them.
BlendFunctionNames ==
  <<"SKIP", "NORMAL", "ADD", "ADD_SMOOTH", "AVERAGE", "COLOR_BURN", "COLOR_DODGE",
    "DARKEN", "LIGHTEN", "DIFFERENCE", "EXCLUSION", "MULTIPLY", "NEGATION",
    "OVERLAY", "REFLECT", "SCREEN", "SOFT_LIGHT", "SUBTRACT">>

BlendFunctionIds == 0 .. (Len(BlendFunctionNames) - 1)

BlendFunction(name) ==
  CHOOSE i \in BlendFunctionIds : BlendFunctionNames[i + 1] = name

\* resolve(id): the formula of id, or the error for an id outside the closed set.
Resolve(id) ==
  IF id \in BlendFunctionIds THEN BlendFunctionNames[id + 1]
  ELSE "UnsupportedBlendFunction"

Min(a, b) == IF a <= b THEN a ELSE b
Max(a, b) == IF a >= b THEN a ELSE b

\* The blend functions the fold is evaluated for.
FoldFunctions == {"SKIP", "NORMAL", "ADD", "MULTIPLY", "SUBTRACT", "COLOR_DODGE"}

\* f(base, contribution) of a formula, on channels x, y in 0..Scale.
Formula(name, x, y) ==
  CASE name = "NORMAL" -> y
    [] name = "ADD" -> Min(x + y, Scale)
    [] name = "MULTIPLY" -> (x * y) \div Scale
    [] name = "SUBTRACT" -> Max(x - y, 0)
    [] name = "COLOR_DODGE" ->
         IF y >= Scale THEN Scale ELSE Min((x * Scale) \div (Scale - y), Scale)
    [] OTHER -> x

\* f(x, y) # f(y, x) for some channel values. SKIP has no formula.
NonCommutative(name) ==
  /\ name # "SKIP"
  /\ \E x, y \in 0 .. Scale : Formula(name, x, y) # Formula(name, y, x)

\* result = lerp(base, f(base, contribution), opacity)
Blend(name, op, x, y) == x + ((Formula(name, x, y) - x) * op) \div Scale

\* ---------------------------------------------------------------- effects

Undefined == "undefined"

\* assets.get(key)
AssetsGet(key) == IF key \in assets THEN key ELSE Undefined

\* new SMAAEffect(search, area, preset, edgeDetectionMode): a multi-pass effect
\* of three dedicated stages, which needs both lookup textures.
SMAAEffect(search, area, preset, mode) ==
  IF search = Undefined \/ area = Undefined
  THEN [error |-> "MissingAssetError"]
  ELSE [error |-> "none", name |-> "smaa", kind |-> "MultiPass",
        shaderBody |-> "smaa.frag", blendFunction |-> BlendFunction("NORMAL"),
        dedicatedPasses |-> <<"edge", "weights", "blend">>]

\* new TextureEffect({blendFunction, texture}): a fusable effect bound to a texture.
TextureEffect(bf, texture) ==
  IF texture = Undefined
  THEN [error |-> "MissingAssetError"]
  ELSE [error |-> "none", name |-> "texture", kind |-> "Fusable",
        shaderBody |-> "texture.frag", blendFunction |-> bf,
        dedicatedPasses |-> <<>>]

\* ----------------------------------------------------------------- fusion

\* A fuse that concatenates the shader body of every effect, multi-pass or not.
FuseSourceAll(effects) ==
  [i \in 1 .. Len(effects) |->
     [effect |-> effects[i].name, body |-> effects[i].shaderBody]]

\* Step 2 of fuse: the shader bodies of the fusable effects, in list order, each
\* under its effect's own prefix. A multi-pass effect contributes no source.
FuseSource(effects) ==
  LET fusable == SelectSeq(effects, LAMBDA e : e.kind = "Fusable")
  IN [i \in 1 .. Len(fusable) |->
        [effect |-> fusable[i].name, body |-> fusable[i].shaderBody]]

\* Steps 3 and 4 of fuse: the effects folded into the colour accumulator.
FuseFold(effects) ==
  SelectSeq(effects,
            LAMBDA e : e.kind = "Fusable" /\ e.blendFunction # BlendFunction("SKIP"))

\* fuse(effects) -> CompiledProgram
Fuse(effects, id) ==
  [id |-> id,
   source |-> FuseSource(effects),
   fold |-> [i \in 1 .. Len(FuseFold(effects)) |->
               [effect |-> FuseFold(effects)[i].name,
                formula |-> Resolve(FuseFold(effects)[i].blendFunction)]]]

\* new EffectPass(camera, ...effects)
EffectPass(effects, id) == [effects |-> effects, program |-> Fuse(effects, id)]

\* The fold evaluated from the end of the list: the first effect blends on top.
AccumulateReverse(fold, u, base) ==
  LET RECURSIVE Go(_, _)
      Go(k, acc) ==
        IF k = 0 THEN acc
        ELSE Go(k - 1, Blend(fold[k].formula, u[fold[k].effect].opacity,
                             acc, u[fold[k].effect].contribution))
  IN Go(Len(fold), base)

\* Step 3 of fuse, evaluated: the accumulator starts from the input colour and
\* each effect of the fold is blended in, in list order, with its own uniforms u.
Accumulate(fold, u, base) ==
  LET RECURSIVE Go(_, _)
      Go(k, acc) ==
        IF k > Len(fold) THEN acc
        ELSE Go(k + 1, Blend(fold[k].formula, u[fold[k].effect].opacity,
                             acc, u[fold[k].effect].contribution))
  IN Go(1, base)

\* blendMode.setBlendFunction(id) on the texture effect of a pass: the pass is
\* fused again when the blend function changed.
SetPassBlendFunction(pass, id, pid) ==
  LET effects == [i \in 1 .. Len(pass.effects) |->
                    IF pass.effects[i].name = "texture"
                    THEN [pass.effects[i] EXCEPT !.blendFunction = id]
                    ELSE pass.effects[i]]
  IN EffectPass(effects, pid)

\* ------------------------------------------------------------------- load

Requests == {"sponza", "scratches", "smaa"}

Required == {"scratches-color", "smaa-search", "smaa-area"}

\* The keys a request's onLoad callback stores in the asset cache.
Stores(r) ==
  CASE r = "sponza" -> {"sponza"}
    [] r = "scratches" -> {"scratches-color"}
    [] r = "smaa" -> {"smaa-search", "smaa-area"}

NoPending(pend) == \A r \in Requests : pend[r] = 0

\* loadingManager.onLoad = () => setTimeout(resolve, 250), called by the
\* manager when the last outstanding request has ended.
ItemEnd(pend) ==
  /\ pending' = pend
  /\ timers' = IF NoPending(pend) /\ onLoadTarget # 0
               THEN timers \cup {onLoadTarget} ELSE timers

\* load(): the p-th call.
Load(p) ==
  /\ p \in 1 .. MaxLoads
  /\ promise[p] = "none"
  /\ \A q \in 1 .. (p - 1) : promise[q] # "none"
  /\ IF assets = {}
     THEN /\ onLoadTarget' = p
          /\ pending' = [r \in Requests |-> pending[r] + 1]
          /\ promise' = [promise EXCEPT ![p] = "pending"]
     ELSE /\ promise' = [promise EXCEPT ![p] = "resolved"]
          /\ UNCHANGED <<onLoadTarget, pending>>
  /\ UNCHANGED <<assets, timers, logged>>
  /\ UNCHANGED <<demoVars, uniformVars, menuVars, frameVars, fz>>

\* A request's onLoad callback: the loaded assets enter the cache.
RequestLoaded(r) ==
  /\ pending[r] > 0
  /\ assets' = assets \cup Stores(r)
  /\ ItemEnd([pending EXCEPT ![r] = pending[r] - 1])
  /\ UNCHANGED <<onLoadTarget, promise, logged>>
  /\ UNCHANGED <<demoVars, uniformVars, menuVars, frameVars, fz>>

\* loadingManager.onError: the failure is logged, and the request has ended.
RequestFailed(r) ==
  /\ pending[r] > 0
  /\ logged' = logged \cup {r}
  /\ ItemEnd([pending EXCEPT ![r] = pending[r] - 1])
  /\ UNCHANGED <<assets, onLoadTarget, promise>>
  /\ UNCHANGED <<demoVars, uniformVars, menuVars, frameVars, fz>>

\* The timer of setTimeout(resolve, 250) fires.
TimerFires(p) ==
  /\ p \in timers
  /\ timers' = timers \ {p}
  /\ promise' = [promise EXCEPT ![p] = "resolved"]
  /\ UNCHANGED <<assets, pending, onLoadTarget, logged>>
  /\ UNCHANGED <<demoVars, uniformVars, menuVars, frameVars, fz>>

\* ------------------------------------------------------------- initialize

\* The texture handed to the TextureEffect: a copy of the SMAA search texture's key.
TextureEffectTextureCopied == AssetsGet("smaa-search")

\* texture: assets.get("scratches-color")
TextureEffectTexture == AssetsGet("scratches-color")

\* The effects of the pass without the antialiasing effect.
PassEffectsTextureOnly(smaaEffect, textureEffect) == <<textureEffect>>

\* new EffectPass(camera, smaaEffect, textureEffect): the effects, in this order.
PassEffects(smaaEffect, textureEffect) == <<smaaEffect, textureEffect>>

DefaultTransform ==
  [rotation |-> 0, offsetX |-> 0, offsetY |-> 0, repeatX |-> 1, repeatY |-> 1,
   centerX |-> 0, centerY |-> 0]

\* initialize(), called once a promise of load() has resolved. The statements
\* up to the effects' construction have run when a constructor throws.
Initialize ==
  /\ initState = "none"
  /\ \E p \in 1 .. MaxLoads : promise[p] = "resolved"
  /\ camera' = "PerspectiveCamera"
  /\ controls' = "SpatialControls"
  /\ background' = "0xeeeeee"
  /\ children' = {"lights"} \cup (IF "sponza" \in assets THEN {"sponza"} ELSE {})
  /\ LET smaaEffect == SMAAEffect(AssetsGet("smaa-search"), AssetsGet("smaa-area"),
                                  "HIGH", "DEPTH")
         textureEffect == TextureEffect(BlendFunction("COLOR_DODGE"),
                                        TextureEffectTexture)
     IN IF smaaEffect.error # "none"
        THEN /\ error' = smaaEffect.error
             /\ initState' = "failed"
             /\ built' = {}
             /\ UNCHANGED <<effect, passes, programId, uniformVars>>
        ELSE IF textureEffect.error # "none"
        THEN /\ error' = textureEffect.error
             /\ initState' = "failed"
             /\ built' = {"smaa"}
             /\ UNCHANGED <<effect, passes, programId, uniformVars>>
        ELSE /\ built' = {"smaa", "texture"}
             /\ effect' = "textureEffect"
             /\ programId' = programId + 1
             /\ passes' = Append(passes,
                                 EffectPass(PassEffects(smaaEffect, textureEffect),
                                            programId + 1))
             /\ opacity' = 100
             /\ blendFunction' = BlendFunction("COLOR_DODGE")
             /\ tex' = DefaultTransform
             /\ initState' = "ok"
             /\ UNCHANGED error
  /\ UNCHANGED <<loadVars, menuVars, frameVars, fz>>

\* -------------------------------------------------------- registerOptions

\* registerOptions(menu), called on a demo whose initialize() has returned.
RegisterOptions ==
  /\ initState = "ok"
  /\ ~menu
  /\ menu' = TRUE
  /\ params' = [opacity |-> opacity,
                blendMode |-> [type |-> "number", value |-> blendFunction]]
  /\ UNCHANGED events
  /\ UNCHANGED <<loadVars, demoVars, uniformVars, frameVars, fz>>

\* The event loop runs a menu handler only between two tasks: never while the
\* frame callback, and the execute of a pass within it, is on the stack.
HandlerMayRun == menu /\ pc = 0 /\ events < MaxEvents

\* The opacity handler run at any point, also in the middle of a frame.
OpacityOnChangeAnytime(value) ==
  /\ menu
  /\ events < MaxEvents
  /\ params' = [params EXCEPT !.opacity = value]
  /\ opacity' = value
  /\ events' = events + 1
  /\ UNCHANGED <<menu, blendFunction, tex>>
  /\ UNCHANGED <<loadVars, demoVars, frameVars, fz>>

\* The opacity handler that leaves the uniform as it is.
OpacityOnChangeParamsOnly(value) ==
  /\ HandlerMayRun
  /\ params' = [params EXCEPT !.opacity = value]
  /\ events' = events + 1
  /\ UNCHANGED <<menu, uniformVars>>
  /\ UNCHANGED <<loadVars, demoVars, frameVars, fz>>

\* menu.add(params, "opacity", 0.0, 1.0, 0.01).onChange: the controller stores
\* the value in params, the handler writes it to the uniform.
OpacityOnChange(value) ==
  /\ HandlerMayRun
  /\ params' = [params EXCEPT !.opacity = value]
  /\ opacity' = value
  /\ events' = events + 1
  /\ UNCHANGED <<menu, blendFunction, tex>>
  /\ UNCHANGED <<loadVars, demoVars, frameVars, fz>>

\* The decimal digits of n: the value of the option the menu's select element
\* holds for a blend function.
RECURSIVE StringOf(_)
StringOf(n) == IF n < 10 THEN <<n>> ELSE Append(StringOf(n \div 10), n % 10)

\* The options of the "blend mode" controller: one per member of BlendFunction.
BlendModeOptions == {StringOf(id) : id \in BlendFunctionIds}

\* The digits read in base 16.
NumberHex(value) ==
  LET RECURSIVE Go(_, _)
      Go(k, acc) == IF k > Len(value) THEN acc ELSE Go(k + 1, acc * 16 + value[k])
  IN Go(1, 0)

\* Number(value) of a string of decimal digits; Number("") is 0.
Number(value) ==
  LET RECURSIVE Go(_, _)
      Go(k, acc) == IF k > Len(value) THEN acc ELSE Go(k + 1, acc * 10 + value[k])
  IN Go(1, 0)

\* blendMode.setBlendFunction(id): resolves id; a change of the blend function
\* changes the shader of the pass, which is fused again.
SetBlendFunction(id) ==
  IF Resolve(id) = "UnsupportedBlendFunction"
  THEN /\ error' = "UnsupportedBlendFunction"
       /\ UNCHANGED <<blendFunction, passes, programId>>
  ELSE /\ blendFunction' = id
       /\ IF id # blendFunction
          THEN /\ programId' = programId + 1
               /\ passes' = [i \in 1 .. Len(passes) |->
                               SetPassBlendFunction(passes[i], id, programId + 1)]
          ELSE UNCHANGED <<passes, programId>>
       /\ UNCHANGED error

\* menu.add(params, "blend mode", BlendFunction).onChange: the controller
\* stores the selected option's value, a string, in params; the handler
\* converts it back to a number.
BlendModeOnChange(value) ==
  /\ HandlerMayRun
  /\ params' = [params EXCEPT !.blendMode = [type |-> "string", value |-> value]]
  /\ SetBlendFunction(Number(value))
  /\ events' = events + 1
  /\ UNCHANGED <<menu, opacity, tex>>
  /\ UNCHANGED <<loadVars, camera, controls, background, children, built, effect,
                 initState, frameVars, fz>>

TransformComponents == DOMAIN DefaultTransform

\* The controllers of the "UV Transformation" folder write the texture's
\* rotation, offset, repeat and center in place.
TransformOnChange(component, value) ==
  /\ HandlerMayRun
  /\ tex' = [tex EXCEPT ![component] = value]
  /\ events' = events + 1
  /\ UNCHANGED <<params, menu, opacity, blendFunction>>
  /\ UNCHANGED <<loadVars, demoVars, frameVars, fz>>

\* ------------------------------------------------------------------ frames

FullFrame == <<"edge", "weights", "blend", "fused">>

\* The buffers a stage reads and the buffer it writes.
Stage(name, consumesAA) ==
  CASE name = "edge" -> [stage |-> name, inputs |-> {"depth"}, output |-> "edges"]
    [] name = "weights" -> [stage |-> name, inputs |-> {"edges"}, output |-> "weights"]
    [] name = "blend" ->
         [stage |-> name, inputs |-> {"color", "weights"}, output |-> "aa"]
    [] name = "fused" ->
         [stage |-> name, inputs |-> IF consumesAA THEN {"aa"} ELSE {"color"},
          output |-> "out"]

\* The stages of one pass: the dedicated passes of its multi-pass effects, in
\* their order, then the fused program, which reads their result.
PassStages(pass) ==
  LET multi == SelectSeq(pass.effects, LAMBDA e : e.kind = "MultiPass")
      RECURSIVE Dedicated(_)
      Dedicated(k) ==
        IF k > Len(multi) THEN <<>>
        ELSE [j \in 1 .. Len(multi[k].dedicatedPasses) |->
                Stage(multi[k].dedicatedPasses[j], TRUE)] \o Dedicated(k + 1)
  IN Dedicated(1) \o <<Stage("fused", Len(multi) > 0)>>

\* The stages of a frame: those of the composer's passes, in the passes' order.
RECURSIVE ScheduleFrom(_)
ScheduleFrom(k) ==
  IF k > Len(passes) THEN <<>> ELSE PassStages(passes[k]) \o ScheduleFrom(k + 1)

Schedule == ScheduleFrom(1)

\* The frame callback starts: composer.render().
BeginFrame ==
  /\ initState = "ok"
  /\ pc = 0
  /\ pc' = 1
  /\ trace' = <<>>
  /\ available' = {"color", "depth"}
  /\ readOk' = TRUE
  /\ frameDone' = FALSE
  /\ UNCHANGED usedOpacity
  /\ UNCHANGED <<loadVars, demoVars, uniformVars, menuVars, fz>>

\* The next stage of the frame executes; the fused program reads the uniforms.
ExecuteStage ==
  /\ pc \in 1 .. Len(Schedule)
  /\ LET s == Schedule[pc]
     IN /\ trace' = Append(trace, s.stage)
        /\ readOk' = (readOk /\ s.inputs \subseteq available)
        /\ available' = available \cup {s.output}
        /\ usedOpacity' = IF s.stage = "fused" THEN opacity ELSE usedOpacity
  /\ pc' = pc + 1
  /\ UNCHANGED frameDone
  /\ UNCHANGED <<loadVars, demoVars, uniformVars, menuVars, fz>>

\* The last pass has executed: the frame callback returns.
EndFrame ==
  /\ pc = Len(Schedule) + 1
  /\ pc' = 0
  /\ frameDone' = TRUE
  /\ UNCHANGED <<trace, available, readOk, usedOpacity>>
  /\ UNCHANGED <<loadVars, demoVars, uniformVars, menuVars, fz>>

\* ------------------------------------------------------- specifications

FzNone == [applied |-> FALSE]

DemoInit ==
  /\ camera = "none"
  /\ controls = "none"
  /\ background = "none"
  /\ children = {}
  /\ built = {}
  /\ effect = "null"
  /\ passes = <<>>
  /\ initState = "none"
  /\ error = "none"
  /\ programId = 0
  /\ opacity = 0
  /\ blendFunction = -1
  /\ tex = DefaultTransform
  /\ params = [opacity |-> 0, blendMode |-> [type |-> "undefined", value |-> 0]]
  /\ menu = FALSE
  /\ events = 0
  /\ pc = 0
  /\ trace = <<>>
  /\ available = {}
  /\ readOk = TRUE
  /\ frameDone = FALSE
  /\ usedOpacity = 0

\* The demo as constructed: an empty asset cache, nothing requested.
Init ==
  /\ assets = {}
  /\ pending = [r \in Requests |-> 0]
  /\ onLoadTarget = 0
  /\ timers = {}
  /\ promise = [p \in 1 .. MaxLoads |-> "none"]
  /\ logged = {}
  /\ DemoInit
  /\ fz = FzNone

Next ==
  \/ \E p \in 1 .. MaxLoads : Load(p)
  \/ \E r \in Requests : RequestLoaded(r)
  \/ \E r \in Requests : RequestFailed(r)
  \/ \E p \in 1 .. MaxLoads : TimerFires(p)
  \/ Initialize

Spec == Init /\ [][Next]_vars

OpacityValues == {0, 50, 100}

\* The demo after load() has resolved with every asset in the cache.
RenderInit ==
  /\ assets = {"sponza"} \cup Required
  /\ pending = [r \in Requests |-> 0]
  /\ onLoadTarget = 1
  /\ timers = {}
  /\ promise = [p \in 1 .. MaxLoads |-> IF p = 1 THEN "resolved" ELSE "none"]
  /\ logged = {}
  /\ DemoInit
  /\ fz = FzNone

RenderNext ==
  \/ Initialize
  \/ RegisterOptions
  \/ BeginFrame
  \/ ExecuteStage
  \/ EndFrame
  \/ \E v \in OpacityValues : OpacityOnChange(v)
  \/ \E v \in BlendModeOptions : BlendModeOnChange(v)
  \/ \E c \in TransformComponents, v \in {0, 1} : TransformOnChange(c, v)

RenderSpec == RenderInit /\ [][RenderNext]_vars

\* ------------------------------------------------- the fold, in both orders

\* An effect of the fold: its blend function and its uniforms.
EffectInputs ==
  [bf : FoldFunctions, contribution : 0 .. Scale, opacity : 0 .. Scale]

\* A fusable effect of the given name and blend function.
FusableEffect(name, bf) ==
  [TextureEffect(BlendFunction(bf), "texture") EXCEPT !.name = name]

\* The uniform binding table of the effects E1 and E2.
Uniforms(c1, o1, c2, o2) ==
  [n \in {"E1", "E2"} |->
     IF n = "E1" THEN [contribution |-> c1, opacity |-> o1]
     ELSE [contribution |-> c2, opacity |-> o2]]

\* The colour the program fused from the effects accumulates over base.
Accumulated(effects, u, base) == Accumulate(Fuse(effects, 1).fold, u, base)

FuseInit ==
  /\ assets = {}
  /\ pending = [r \in Requests |-> 0]
  /\ onLoadTarget = 0
  /\ timers = {}
  /\ promise = [p \in 1 .. MaxLoads |-> "none"]
  /\ logged = {}
  /\ DemoInit
  /\ fz \in [e1 : EffectInputs, e2 : EffectInputs, base : 0 .. Scale,
             acc12 : {0}, acc21 : {0}, applied : {FALSE}]

\* fuse([E1, E2]) and fuse([E2, E1]), each executed over the same input colour.
ApplyFuse ==
  /\ ~fz.applied
  /\ LET E1 == FusableEffect("E1", fz.e1.bf)
         E2 == FusableEffect("E2", fz.e2.bf)
         u == Uniforms(fz.e1.contribution, fz.e1.opacity,
                       fz.e2.contribution, fz.e2.opacity)
     IN fz' = [fz EXCEPT !.acc12 = Accumulated(<<E1, E2>>, u, fz.base),
                         !.acc21 = Accumulated(<<E2, E1>>, u, fz.base),
                         !.applied = TRUE]
  /\ UNCHANGED <<loadVars, demoVars, uniformVars, menuVars, frameVars>>

FuseNext == ApplyFuse

FuseSpec == FuseInit /\ [][FuseNext]_vars

\* ------------------------------------------------------------------ claims

\* C1: whenever initialize() runs with 'smaa-search', 'smaa-area' or
\* 'scratches-color' absent from the asset cache, it fails with
\* MissingAssetError, adds no pass and sets no effect; the SMAA effect is built
\* only with both lookup textures present, the texture effect only with its
\* texture present.
C1_MissingAssetFails ==
  [][(initState = "none" /\ initState' # "none") =>
       /\ (~(Required \subseteq assets) =>
             /\ initState' = "failed"
             /\ error' = "MissingAssetError"
             /\ passes' = <<>>
             /\ effect' = "null")
       /\ ("smaa" \in built' => {"smaa-search", "smaa-area"} \subseteq assets)
       /\ ("texture" \in built' => "scratches-color" \in assets)]_vars

\* initialize() has failed with the SMAA textures loaded and the scratches
\* texture missing.
C1_Witness ==
  /\ initState = "failed"
  /\ error = "MissingAssetError"
  /\ built = {"smaa"}
  /\ "scratches-color" \notin assets

\* C2: in every pass that lists the SMAA effect, the fused program holds no
\* shader source contributed by the SMAA effect.
C2_SMAAContributesNoSource ==
  \A i \in 1 .. Len(passes) :
    (\E j \in 1 .. Len(passes[i].effects) : passes[i].effects[j].name = "smaa") =>
      \A k \in 1 .. Len(passes[i].program.source) :
        passes[i].program.source[k].effect # "smaa"

\* The demo's pass lists the SMAA effect and the texture effect, and its fused
\* program holds the texture effect's source.
C2_Witness ==
  /\ Len(passes) = 1
  /\ \E j \in 1 .. Len(passes[1].effects) : passes[1].effects[j].name = "smaa"
  /\ Len(passes[1].program.source) = 1
  /\ passes[1].program.source[1].effect = "texture"

IsPrefix(s, t) == Len(s) <= Len(t) /\ \A i \in 1 .. Len(s) : s[i] = t[i]

\* C3: in every frame the stages run in the order edge detection, weight
\* calculation, neighbourhood blending, with nothing between them, each after
\* the buffers it reads were written, and all three before the fused program
\* of the pass; a completed frame has run all four.
C3_StagesInOrder ==
  initState = "ok" =>
    /\ IsPrefix(trace, FullFrame)
    /\ readOk
    /\ (frameDone => trace = FullFrame)

\* A frame has completed with the three stages and the fused program executed.
C3_Witness == frameDone /\ trace = FullFrame /\ "aa" \in available

C5_OpacityKeepsProgram ==
  [][/\ (effect # "null" /\ opacity' # opacity =>
           programId' = programId /\ passes' = passes)
     /\ (programId' # programId =>
           blendFunction' # blendFunction \/ Len(passes') # Len(passes))
     /\ (menu /\ Len(trace') > Len(trace) /\ trace'[Len(trace')] = "fused" =>
           usedOpacity' = params.opacity)]_vars

\* A frame has executed with the opacity the menu set, under the program
\* compiled by initialize().
C5_Witness ==
  /\ frameDone
  /\ events > 0
  /\ params.opacity = 50
  /\ usedOpacity = 50
  /\ programId = 1

\* The accumulator with e1 folded in first and e2 on top of it.
Nested(first, second, base) ==
  LET Step(e, x) ==
        IF e.bf = "SKIP" THEN x ELSE Blend(e.bf, e.opacity, x, e.contribution)
  IN Step(second, Step(first, base))

\* The programs fused from [E1, E2] and from [E2, E1] accumulate different
\* colours from at least one input colour and pair of contributions.
ProgramsDiffer(e1, e2) ==
  \E b, c1, c2 \in 0 .. Scale :
    LET E1 == FusableEffect("E1", e1.bf)
        E2 == FusableEffect("E2", e2.bf)
        u == Uniforms(c1, e1.opacity, c2, e2.opacity)
    IN Accumulated(<<E1, E2>>, u, b) # Accumulated(<<E2, E1>>, u, b)

C7_NoPartialInitialization ==
  initState = "failed" =>
    /\ passes = <<>>
    /\ effect = "null"
    /\ camera = "none"
    /\ controls = "none"
    /\ background = "none"
    /\ children = {}

\* C8: resolve succeeds exactly on the closed set, and after any sequence of
\* 'blend mode' selections the texture effect's blend function is a member
\* of the closed set and no selection has failed to resolve.
C8_BlendFunctionInClosedSet ==
  /\ \A id \in -2 .. (Len(BlendFunctionNames) + 2) :
       (Resolve(id) = "UnsupportedBlendFunction") <=> (id \notin BlendFunctionIds)
  /\ effect # "null" =>
       /\ blendFunction \in BlendFunctionIds
       /\ Resolve(blendFunction) # "UnsupportedBlendFunction"
       /\ error # "UnsupportedBlendFunction"

\* The menu has selected SUBTRACT, whose option value has two digits.
C8_Witness ==
  /\ events > 0
  /\ params.blendMode.type = "string"
  /\ params.blendMode.value = <<1, 7>>
  /\ blendFunction = BlendFunction("SUBTRACT")

\* C9: when a promise returned by load() resolves, the asset cache holds
\* 'scratches-color', 'smaa-search' and 'smaa-area'.
C9_ResolvedWithAssets ==
  [][\A p \in 1 .. MaxLoads :
       (promise[p] # "resolved" /\ promise'[p] = "resolved") =>
         Required \subseteq assets']_vars

\* C10: once every started request has ended, the loading manager has fired
\* onLoad and the timers have run, no promise returned by load() is pending.
\* (A promise pending then stays pending: only a timer resolves a pending
\* promise, and a timer is set only for the promise onLoad wraps at that time.)
C10_EveryPromiseResolved ==
  (NoPending(pending) /\ timers = {}) =>
    \A p \in 1 .. MaxLoads : promise[p] # "pending"

====
